---------------------------- MODULE Spec2Model ----------------------------
(***************************************************************************)
(* Model of task.go: a generator goroutine publishing 1,2,3,... on the     *)
(* unbuffered channel chIn until its context is done, NumOut Worker        *)
(* goroutines forwarding chIn to their own unbuffered channel outs[i],     *)
(* NumOut collector goroutines forwarding to the buffered channel chOut    *)
(* and counting in amounts[i], a goroutine that closes chOut after         *)
(* wg.Wait(), and main, which drains chOut and compares the tallies.       *)
(*                                                                         *)
(* Lanes are numbered 1..numOut here (0..NumOut-1 in the source).          *)
(* An unbuffered send and its matching receive are one joint step.         *)
(*                                                                         *)
(* The collector closure (task.go:93-106) declares a parameter `in` but    *)
(* receives from the range variable `c` of the enclosing loop              *)
(* (task.go:91, 98).  Which channel that is depends on the language        *)
(* version the file is built with: from Go 1.22 on the range variable is   *)
(* per iteration and c is outs[i]; before Go 1.22 there is one c for the   *)
(* whole loop, main writes it at each iteration while the collectors read  *)
(* it (a data race), and a read yields whatever main stored last.  The     *)
(* repository fixes no language version, so loopVarPerIteration is chosen  *)
(* in Init and both builds are behaviours of the model.                    *)
(***************************************************************************)
EXTENDS Integers, Sequences, FiniteSets, TLC

\* Bounds of the model.
MaxNumOut == 2      \* lane counts 1..MaxNumOut are explored (NumOut, task.go:72)
MaxCurrent == 2     \* the generator publishes at most the values 1..MaxCurrent

VARIABLES
    loopVarPerIteration, \* TRUE: Go >= 1.22 range semantics; FALSE: one shared c
    numOut,              \* NumOut
    ctxDone,             \* ctx.Done() is closed (deadline fired or cancel called)
    genPc, current,      \* Generator: position and local `current`
    chInClosedBy,        \* who closed chIn ("none" while open)
    inputSum, inputCount,\* the tallies updated by the callback fn
    wPc, wV,             \* Worker i: position and local `v`
    outsClosedBy,        \* outsClosedBy[i]: worker that closed outs[i] (0 while open)
    c,                   \* the shared range variable c, as a lane number (Go < 1.22)
    cPc, cCh, cV,        \* collector i: position, channel it evaluated `c` to, local `v`
    amounts,             \* amounts[i]
    chOut,               \* buffer of chOut (capacity NumOut)
    chOutClosedBy,       \* who closed chOut ("none" while open)
    wg,                  \* counter of the sync.WaitGroup
    waitPc,              \* the goroutine of task.go:109-114
    mainPc, mainI,       \* main: position and the range index i
    count, sum,          \* main's count and sum
    panicked,            \* a run-time panic happened (send on / close of a closed channel)
    \* history variables (observations, never read by the program)
    published,           \* values whose send on chIn completed, in order
    wRecv,               \* wRecv[i]: sequence of values worker i received from chIn
    wSent,               \* wSent[i]: sequence of values worker i sent on outs[i]
    cFrom,               \* cFrom[i]: lanes whose channel collector i received from or saw closed
    cPut,                \* cPut[i]: sequence of values collector i put into chOut
    got,                 \* values main read from chOut, in order
    fnCalls              \* arguments of the calls of fn, in order

vars == << loopVarPerIteration, numOut, ctxDone, genPc, current, chInClosedBy,
           inputSum, inputCount, wPc, wV, outsClosedBy, c, cPc, cCh, cV,
           amounts, chOut, chOutClosedBy, wg, waitPc, mainPc, mainI, count, sum,
           panicked, published, wRecv, wSent, cFrom, cPut, got, fnCalls >>

Lanes == 1..numOut

RECURSIVE SumTo(_, _)
SumTo(f, n) == IF n = 0 THEN 0 ELSE f[n] + SumTo(f, n - 1)

\* main has returned or log.Fatalf has ended the process.
MainEnded == mainPc \in {"exit", "fatalSum", "fatalCount", "fatalDist"}

\* The process is alive: goroutines take steps only then.
Running == ~MainEnded /\ ~panicked

chInClosed == chInClosedBy # "none"
chOutClosed == chOutClosedBy # "none"
outsClosed(i) == outsClosedBy[i] # 0

Init ==
    /\ loopVarPerIteration \in BOOLEAN
    /\ numOut \in 1..MaxNumOut
    /\ ctxDone = FALSE
    /\ genPc = "select"
    /\ current = 1
    /\ chInClosedBy = "none"
    /\ inputSum = 0
    /\ inputCount = 0
    /\ wPc = [i \in 1..numOut |-> "recv"]
    /\ wV = [i \in 1..numOut |-> 0]
    /\ outsClosedBy = [i \in 1..numOut |-> 0]
    /\ c = 0
    /\ cPc = [i \in 1..numOut |-> "unborn"]
    /\ cCh = [i \in 1..numOut |-> 0]
    /\ cV = [i \in 1..numOut |-> 0]
    /\ amounts = [i \in 1..numOut |-> 0]
    /\ chOut = << >>
    /\ chOutClosedBy = "none"
    /\ wg = numOut
    /\ waitPc = "unborn"
    /\ mainPc = "range"
    /\ mainI = 1
    /\ count = 0
    /\ sum = 0
    /\ panicked = FALSE
    /\ published = << >>
    /\ wRecv = [i \in 1..numOut |-> << >>]
    /\ wSent = [i \in 1..numOut |-> << >>]
    /\ cFrom = [i \in 1..numOut |-> {}]
    /\ cPut = [i \in 1..numOut |-> << >>]
    /\ got = << >>
    /\ fnCalls = << >>

genVars == << genPc, current, chInClosedBy, inputSum, inputCount, published,
             fnCalls >>
workerVars == << wPc, wV, outsClosedBy, wRecv, wSent >>
collVars == << cPc, cCh, cV, amounts, cFrom, cPut >>
mainVars == << mainPc, mainI, count, sum, got >>
cfgVars == << loopVarPerIteration, numOut >>

----------------------------------------------------------------------------
\* The deadline of context.WithTimeout fires.
Timeout ==
    /\ Running
    /\ ~ctxDone
    /\ ctxDone' = TRUE
    /\ UNCHANGED << cfgVars, genVars, workerVars, c, collVars, chOut,
                    chOutClosedBy, wg, waitPc, mainVars, panicked >>

----------------------------------------------------------------------------
\* Generator

\* close(ch): closing a closed channel panics.
GenClose ==
    IF chInClosed
    THEN panicked' = TRUE /\ UNCHANGED chInClosedBy
    ELSE chInClosedBy' = "Generator" /\ UNCHANGED panicked

\* GenSelect with the deferred close(ch) forgotten on the cancellation path.
GenSelectNoClose ==
    /\ Running
    /\ genPc = "select"
    /\ IF ctxDone
       THEN /\ genPc' = "done"
            /\ UNCHANGED << chInClosedBy, panicked >>
       ELSE /\ current <= MaxCurrent
            /\ genPc' = "send"
            /\ UNCHANGED << chInClosedBy, panicked >>
    /\ UNCHANGED << cfgVars, ctxDone, current, inputSum, inputCount, published,
                    fnCalls,
                    workerVars, c, collVars, chOut, chOutClosedBy, wg, waitPc,
                    mainVars >>

\* GenSelect with the default case taken although the Done case is ready (the
\* check of cancellation skipped for an iteration).
GenSelectEither ==
    /\ Running
    /\ genPc = "select"
    /\ \/ /\ ctxDone
          /\ GenClose
          /\ genPc' = "done"
       \/ /\ current <= MaxCurrent
          /\ genPc' = "send"
          /\ UNCHANGED << chInClosedBy, panicked >>
    /\ UNCHANGED << cfgVars, ctxDone, current, inputSum, inputCount, published,
                    fnCalls,
                    workerVars, c, collVars, chOut, chOutClosedBy, wg, waitPc,
                    mainVars >>

\* The select of task.go:25-32: the Done case when it is ready (return, and the
\* deferred close(ch) runs), the default case otherwise.  The default case is
\* taken only while current <= MaxCurrent: past the bound the generator waits
\* for the deadline.
GenSelect ==
    /\ Running
    /\ genPc = "select"
    /\ IF ctxDone
       THEN /\ GenClose
            /\ genPc' = "done"
       ELSE /\ current <= MaxCurrent
            /\ genPc' = "send"
            /\ UNCHANGED << chInClosedBy, panicked >>
    /\ UNCHANGED << cfgVars, ctxDone, current, inputSum, inputCount, published,
                    fnCalls,
                    workerVars, c, collVars, chOut, chOutClosedBy, wg, waitPc,
                    mainVars >>

\* GenSendWorkerRecv with the value handed to every worker waiting at its
\* receive (a broadcast) instead of to worker i alone.
GenSendBroadcast(i) ==
    /\ Running
    /\ genPc = "send"
    /\ wPc[i] = "recv"
    /\ ~chInClosed
    /\ genPc' = "fn"
    /\ published' = Append(published, current)
    /\ wV' = [j \in Lanes |-> IF wPc[j] = "recv" THEN current ELSE wV[j]]
    /\ wPc' = [j \in Lanes |-> IF wPc[j] = "recv" THEN "send" ELSE wPc[j]]
    /\ wRecv' = [j \in Lanes |->
                    IF wPc[j] = "recv" THEN Append(wRecv[j], current) ELSE wRecv[j]]
    /\ UNCHANGED << cfgVars, ctxDone, current, chInClosedBy, inputSum, inputCount,
                    fnCalls, outsClosedBy, wSent, c, collVars, chOut, chOutClosedBy, wg,
                    waitPc, mainVars, panicked >>

\* ch <- current meets v, ok := <-in of worker i (chIn is unbuffered).
GenSendWorkerRecv(i) ==
    /\ Running
    /\ genPc = "send"
    /\ wPc[i] = "recv"
    /\ ~chInClosed
    /\ genPc' = "fn"
    /\ published' = Append(published, current)
    /\ wV' = [wV EXCEPT ![i] = current]
    /\ wPc' = [wPc EXCEPT ![i] = "send"]
    /\ wRecv' = [wRecv EXCEPT ![i] = Append(@, current)]
    /\ UNCHANGED << cfgVars, ctxDone, current, chInClosedBy, inputSum, inputCount,
                    fnCalls, outsClosedBy, wSent, c, collVars, chOut, chOutClosedBy, wg,
                    waitPc, mainVars, panicked >>

\* GenFn with current++ moved before fn(current).
GenFnAfterIncrement ==
    /\ Running
    /\ genPc = "fn"
    /\ inputSum' = inputSum + current + 1
    /\ inputCount' = inputCount + 1
    /\ current' = current + 1
    /\ fnCalls' = Append(fnCalls, current + 1)
    /\ genPc' = "select"
    /\ UNCHANGED << cfgVars, ctxDone, chInClosedBy, published,
                    workerVars, c, collVars, chOut, chOutClosedBy, wg, waitPc,
                    mainVars, panicked >>

\* fn(current): atomic.AddInt64(&inputSum, i); atomic.AddInt64(&inputCount, 1);
\* then current++.
GenFn ==
    /\ Running
    /\ genPc = "fn"
    /\ inputSum' = inputSum + current
    /\ inputCount' = inputCount + 1
    /\ current' = current + 1
    /\ fnCalls' = Append(fnCalls, current)
    /\ genPc' = "select"
    /\ UNCHANGED << cfgVars, ctxDone, chInClosedBy, published,
                    workerVars, c, collVars, chOut, chOutClosedBy, wg, waitPc,
                    mainVars, panicked >>

----------------------------------------------------------------------------
\* Worker

\* v, ok := <-in with in closed: return, and the deferred close(out) runs.
WorkerClose(i) ==
    /\ Running
    /\ wPc[i] = "recv"
    /\ chInClosed
    /\ wPc' = [wPc EXCEPT ![i] = "done"]
    /\ IF outsClosed(i)
       THEN panicked' = TRUE /\ UNCHANGED outsClosedBy
       ELSE outsClosedBy' = [outsClosedBy EXCEPT ![i] = i] /\ UNCHANGED panicked
    /\ UNCHANGED << cfgVars, ctxDone, genVars, wV, wRecv, wSent, c, collVars,
                    chOut, chOutClosedBy, wg, waitPc, mainVars >>

\* out <- v of worker i meets v, ok := <-c of collector k, which is blocked
\* on outs[i] (outs[i] is unbuffered).  The worker then sleeps 1 ms, which
\* touches nothing shared, and is back at its receive.
WorkerSendCollRecv(i, k) ==
    /\ Running
    /\ wPc[i] = "send"
    /\ cPc[k] = "recv"
    /\ cCh[k] = i
    /\ ~outsClosed(i)
    /\ wPc' = [wPc EXCEPT ![i] = "recv"]
    /\ wSent' = [wSent EXCEPT ![i] = Append(@, wV[i])]
    /\ cV' = [cV EXCEPT ![k] = wV[i]]
    /\ cPc' = [cPc EXCEPT ![k] = "send"]
    /\ cFrom' = [cFrom EXCEPT ![k] = @ \cup {i}]
    /\ UNCHANGED << cfgVars, ctxDone, genVars, wV, outsClosedBy, wRecv, c, cCh,
                    amounts, cPut, chOut, chOutClosedBy, wg, waitPc, mainVars,
                    panicked >>

----------------------------------------------------------------------------
\* Collector goroutines (task.go:93-106)

\* The channel the expression `c` of task.go:98 denotes for collector k.
ReadC(k) == IF loopVarPerIteration THEN k ELSE c

\* Collector k evaluates the channel operand of <-c and blocks on it.
CollEval(k) ==
    /\ Running
    /\ cPc[k] = "loop"
    /\ cCh' = [cCh EXCEPT ![k] = ReadC(k)]
    /\ cPc' = [cPc EXCEPT ![k] = "recv"]
    /\ UNCHANGED << cfgVars, ctxDone, genVars, workerVars, c, cV, amounts, cFrom,
                    cPut, chOut, chOutClosedBy, wg, waitPc, mainVars, panicked >>

\* v, ok := <-c with the channel closed: return, and the deferred wg.Done() runs.
CollDone(k) ==
    /\ Running
    /\ cPc[k] = "recv"
    /\ outsClosed(cCh[k])
    /\ cPc' = [cPc EXCEPT ![k] = "done"]
    /\ cFrom' = [cFrom EXCEPT ![k] = @ \cup {cCh[k]}]
    /\ wg' = wg - 1
    /\ UNCHANGED << cfgVars, ctxDone, genVars, workerVars, c, cCh, cV, amounts,
                    cPut, chOut, chOutClosedBy, waitPc, mainVars, panicked >>

\* CollSend on a channel without a capacity: the send never blocks.
CollSendUnbounded(k) ==
    /\ Running
    /\ cPc[k] = "send"
    /\ IF chOutClosed
       THEN /\ panicked' = TRUE
            /\ UNCHANGED << chOut, cPc, cPut >>
       ELSE /\ chOut' = Append(chOut, cV[k])
            /\ cPut' = [cPut EXCEPT ![k] = Append(@, cV[k])]
            /\ cPc' = [cPc EXCEPT ![k] = "inc"]
            /\ UNCHANGED panicked
    /\ UNCHANGED << cfgVars, ctxDone, genVars, workerVars, c, cCh, cV, amounts,
                    cFrom, chOutClosedBy, wg, waitPc, mainVars >>

\* CollSend with chOut taken for a stack of unlimited depth: the value is put
\* in front of the buffer and the send never blocks.
CollSendStack(k) ==
    /\ Running
    /\ cPc[k] = "send"
    /\ IF chOutClosed
       THEN /\ panicked' = TRUE
            /\ UNCHANGED << chOut, cPc, cPut >>
       ELSE /\ chOut' = << cV[k] >> \o chOut
            /\ cPut' = [cPut EXCEPT ![k] = Append(@, cV[k])]
            /\ cPc' = [cPc EXCEPT ![k] = "inc"]
            /\ UNCHANGED panicked
    /\ UNCHANGED << cfgVars, ctxDone, genVars, workerVars, c, cCh, cV, amounts,
                    cFrom, chOutClosedBy, wg, waitPc, mainVars >>

\* chOut <- v: blocks while the buffer is full, panics on a closed channel.
CollSend(k) ==
    /\ Running
    /\ cPc[k] = "send"
    /\ IF chOutClosed
       THEN /\ panicked' = TRUE
            /\ UNCHANGED << chOut, cPc, cPut >>
       ELSE /\ Len(chOut) < numOut
            /\ chOut' = Append(chOut, cV[k])
            /\ cPut' = [cPut EXCEPT ![k] = Append(@, cV[k])]
            /\ cPc' = [cPc EXCEPT ![k] = "inc"]
            /\ UNCHANGED panicked
    /\ UNCHANGED << cfgVars, ctxDone, genVars, workerVars, c, cCh, cV, amounts,
                    cFrom, chOutClosedBy, wg, waitPc, mainVars >>

\* CollInc with the increment of amounts[i] lost.
CollIncLost(k) ==
    /\ Running
    /\ cPc[k] = "inc"
    /\ cPc' = [cPc EXCEPT ![k] = "loop"]
    /\ UNCHANGED << cfgVars, ctxDone, genVars, workerVars, c, cCh, cV, amounts,
                    cFrom, cPut, chOut, chOutClosedBy, wg, waitPc, mainVars,
                    panicked >>

\* amounts[i]++
CollInc(k) ==
    /\ Running
    /\ cPc[k] = "inc"
    /\ amounts' = [amounts EXCEPT ![k] = @ + 1]
    /\ cPc' = [cPc EXCEPT ![k] = "loop"]
    /\ UNCHANGED << cfgVars, ctxDone, genVars, workerVars, c, cCh, cV, cFrom,
                    cPut, chOut, chOutClosedBy, wg, waitPc, mainVars, panicked >>

----------------------------------------------------------------------------
\* The goroutine of task.go:109-114

\* wg.Wait() returns once the counter is zero, then close(chOut).
WaitClose ==
    /\ Running
    /\ waitPc = "wait"
    /\ wg = 0
    /\ waitPc' = "done"
    /\ IF chOutClosed
       THEN panicked' = TRUE /\ UNCHANGED chOutClosedBy
       ELSE chOutClosedBy' = "waiter" /\ UNCHANGED panicked
    /\ UNCHANGED << cfgVars, ctxDone, genVars, workerVars, c, collVars, chOut,
                    wg, mainVars >>

----------------------------------------------------------------------------
\* main

\* One iteration of for i, c := range outs: c is set and the collector started.
MainRange ==
    /\ Running
    /\ mainPc = "range"
    /\ mainI <= numOut
    /\ c' = mainI
    /\ cPc' = [cPc EXCEPT ![mainI] = "loop"]
    /\ mainI' = mainI + 1
    /\ UNCHANGED << cfgVars, ctxDone, genVars, workerVars, cCh, cV, amounts,
                    cFrom, cPut, chOut, chOutClosedBy, wg, waitPc, mainPc, count,
                    sum, got, panicked >>

\* The range loop is over; go func() { wg.Wait(); close(chOut) }().
MainGoWait ==
    /\ Running
    /\ mainPc = "range"
    /\ mainI > numOut
    /\ waitPc' = "wait"
    /\ mainPc' = "drain"
    /\ UNCHANGED << cfgVars, ctxDone, genVars, workerVars, c, collVars, chOut,
                    chOutClosedBy, wg, mainI, count, sum, got, panicked >>

\* for v := range chOut: one received value.
MainRecv ==
    /\ Running
    /\ mainPc = "drain"
    /\ chOut # << >>
    /\ count' = count + 1
    /\ sum' = sum + Head(chOut)
    /\ got' = Append(got, Head(chOut))
    /\ chOut' = Tail(chOut)
    /\ UNCHANGED << cfgVars, ctxDone, genVars, workerVars, c, collVars,
                    chOutClosedBy, wg, waitPc, mainPc, mainI, panicked >>

\* for v := range chOut ends: chOut is closed and empty.
MainDrained ==
    /\ Running
    /\ mainPc = "drain"
    /\ chOut = << >>
    /\ chOutClosed
    /\ mainPc' = "checkSum"
    /\ UNCHANGED << cfgVars, ctxDone, genVars, workerVars, c, collVars, chOut,
                    chOutClosedBy, wg, waitPc, mainI, count, sum, got, panicked >>

\* MainCheckSum with the comparison of the sums left out.
MainCheckSumSkipped ==
    /\ Running
    /\ mainPc = "checkSum"
    /\ mainPc' = "checkCount"
    /\ UNCHANGED << cfgVars, ctxDone, genVars, workerVars, c, collVars, chOut,
                    chOutClosedBy, wg, waitPc, mainI, count, sum, got, panicked >>

\* if inputSum != sum { log.Fatalf(...) }
MainCheckSum ==
    /\ Running
    /\ mainPc = "checkSum"
    /\ mainPc' = IF inputSum # sum THEN "fatalSum" ELSE "checkCount"
    /\ UNCHANGED << cfgVars, ctxDone, genVars, workerVars, c, collVars, chOut,
                    chOutClosedBy, wg, waitPc, mainI, count, sum, got, panicked >>

\* MainCheckCount with the comparison of the counts left out.
MainCheckCountSkipped ==
    /\ Running
    /\ mainPc = "checkCount"
    /\ mainPc' = "checkDist"
    /\ UNCHANGED << cfgVars, ctxDone, genVars, workerVars, c, collVars, chOut,
                    chOutClosedBy, wg, waitPc, mainI, count, sum, got, panicked >>

\* if inputCount != count { log.Fatalf(...) }
MainCheckCount ==
    /\ Running
    /\ mainPc = "checkCount"
    /\ mainPc' = IF inputCount # count THEN "fatalCount" ELSE "checkDist"
    /\ UNCHANGED << cfgVars, ctxDone, genVars, workerVars, c, collVars, chOut,
                    chOutClosedBy, wg, waitPc, mainI, count, sum, got, panicked >>

\* for _, v := range amounts { inputCount -= v }; if inputCount != 0 { log.Fatalf };
\* otherwise main returns and the deferred cancel() runs.
MainCheckDist ==
    /\ Running
    /\ mainPc = "checkDist"
    /\ inputCount' = inputCount - SumTo(amounts, numOut)
    /\ IF inputCount' # 0
       THEN mainPc' = "fatalDist" /\ UNCHANGED ctxDone
       ELSE mainPc' = "exit" /\ ctxDone' = TRUE
    /\ UNCHANGED << cfgVars, genPc, current, chInClosedBy, inputSum,
                    published, fnCalls,
                    workerVars, c, collVars, chOut, chOutClosedBy, wg, waitPc,
                    mainI, count, sum, got, panicked >>

----------------------------------------------------------------------------
Next ==
    \/ Timeout
    \/ GenSelect
    \/ \E i \in Lanes : GenSendWorkerRecv(i)
    \/ GenFn
    \/ \E i \in Lanes : WorkerClose(i)
    \/ \E i \in Lanes : \E k \in Lanes : WorkerSendCollRecv(i, k)
    \/ \E k \in Lanes : CollEval(k)
    \/ \E k \in Lanes : CollDone(k)
    \/ \E k \in Lanes : CollSend(k)
    \/ \E k \in Lanes : CollInc(k)
    \/ WaitClose
    \/ MainRange
    \/ MainGoWait
    \/ MainRecv
    \/ MainDrained
    \/ MainCheckSum
    \/ MainCheckCount
    \/ MainCheckDist

Spec == Init /\ [][Next]_vars

\* The steps of each goroutine, for the fairness conditions.
GeneratorStep == GenSelect \/ GenFn \/ \E i \in Lanes : GenSendWorkerRecv(i)
WorkerStep(i) ==
    /\ i \in Lanes
    /\ WorkerClose(i) \/ \E k \in Lanes : WorkerSendCollRecv(i, k)
CollStep(k) ==
    /\ k \in Lanes
    /\ CollEval(k) \/ CollDone(k) \/ CollSend(k) \/ CollInc(k)
MainStep ==
    \/ MainRange \/ MainGoWait \/ MainRecv \/ MainDrained
    \/ MainCheckSum \/ MainCheckCount \/ MainCheckDist

\* The Go scheduler runs every goroutine that can take a step, and the timer of
\* context.WithTimeout fires.
Fairness ==
    /\ WF_vars(Timeout)
    /\ WF_vars(GeneratorStep)
    /\ \A i \in 1..MaxNumOut : WF_vars(WorkerStep(i))
    /\ \A k \in 1..MaxNumOut : WF_vars(CollStep(k))
    /\ WF_vars(WaitClose)
    /\ WF_vars(MainStep)

FairSpec == Spec /\ Fairness

----------------------------------------------------------------------------
\* The checks of task.go:129-141 on their own, applied to any tallies and any
\* lane counters: main stands before the first check, every goroutine has
\* returned and every channel is closed.
ReconInit ==
    /\ loopVarPerIteration \in BOOLEAN
    /\ numOut \in 1..MaxNumOut
    /\ ctxDone = TRUE
    /\ genPc = "done"
    /\ current = 1
    /\ chInClosedBy = "Generator"
    /\ inputSum \in 0..MaxCurrent
    /\ inputCount \in 0..MaxCurrent
    /\ wPc = [i \in 1..numOut |-> "done"]
    /\ wV = [i \in 1..numOut |-> 0]
    /\ outsClosedBy = [i \in 1..numOut |-> i]
    /\ c = numOut
    /\ cPc = [i \in 1..numOut |-> "done"]
    /\ cCh = [i \in 1..numOut |-> 0]
    /\ cV = [i \in 1..numOut |-> 0]
    /\ amounts \in [1..numOut -> 0..MaxCurrent]
    /\ chOut = << >>
    /\ chOutClosedBy = "waiter"
    /\ wg = 0
    /\ waitPc = "done"
    /\ mainPc = "checkSum"
    /\ mainI = numOut + 1
    /\ count \in 0..MaxCurrent
    /\ sum \in 0..MaxCurrent
    /\ panicked = FALSE
    /\ published = << >>
    /\ wRecv = [i \in 1..numOut |-> << >>]
    /\ wSent = [i \in 1..numOut |-> << >>]
    /\ cFrom = [i \in 1..numOut |-> {}]
    /\ cPut = [i \in 1..numOut |-> << >>]
    /\ got = << >>
    /\ fnCalls = << >>

ReconNext == MainCheckSum \/ MainCheckCount \/ MainCheckDist

ReconSpec == ReconInit /\ [][ReconNext]_vars

----------------------------------------------------------------------------
\* The program with an injected fault: chOut (task.go:84) is closed by someone
\* other than the goroutine of task.go:109-114 while a collector has not yet
\* returned.  The collectors, that goroutine and main go on as the code says:
\* a later send on chOut or a second close(chOut) panics.
PrematureClose ==
    /\ Running
    /\ ~chOutClosed
    /\ \E k \in Lanes : cPc[k] # "done"
    /\ chOutClosedBy' = "fault"
    /\ UNCHANGED << cfgVars, ctxDone, genVars, workerVars, c, collVars, chOut,
                    wg, waitPc, mainVars, panicked >>

FaultNext == Next \/ PrematureClose

FaultSpec == Init /\ [][FaultNext]_vars

----------------------------------------------------------------------------
\* Properties

Range(s) == { s[x] : x \in 1..Len(s) }
Occurrences(s, v) == Cardinality({ x \in 1..Len(s) : s[x] = v })
FatalEnd == mainPc \in {"fatalSum", "fatalCount", "fatalDist"}

\* C1: when main reaches the checks of task.go:130-135 the generator's tally
\* equals main's (inputCount = count, inputSum = sum), and neither the
\* sum-mismatch nor the count-mismatch log.Fatalf is reached.
C1_TalliesAgree ==
    /\ mainPc \in {"checkSum", "checkCount"} =>
            inputCount = count /\ inputSum = sum
    /\ mainPc \notin {"fatalSum", "fatalCount"}

\* C2: when main reaches the distribution check (task.go:136-141) the lane
\* counters add up to inputCount, and the distribution-mismatch log.Fatalf is
\* never reached.
C2_DistributionAgrees ==
    /\ mainPc = "checkDist" => SumTo(amounts, numOut) = inputCount
    /\ mainPc # "fatalDist"

\* C2 witness: main is at the distribution check of a two-lane run in which
\* both lanes counted a value.
C2_Witness ==
    /\ mainPc = "checkDist"
    /\ numOut = 2
    /\ amounts[1] > 0
    /\ amounts[2] > 0

\* C3: at program end every value published on chIn was read by main from
\* chOut exactly once, and main read nothing else.
C3_ExactlyOnce ==
    MainEnded =>
        /\ \A v \in Range(published) : Occurrences(got, v) = 1
        /\ Range(got) \subseteq Range(published)

\* C4: under fair scheduling, once the deadline has fired main reaches its
\* normal exit, and no state before main has ended is a deadlock.
C4_Terminates ==
    /\ ctxDone ~> (mainPc = "exit")
    /\ [](~MainEnded => ENABLED Next)

\* The generator returned at its first cancellation check.
FirstCheckCancelled == genPc = "done" /\ current = 1

\* C5: if the deadline is active at the generator's first check, nothing is
\* published, the tallies and every lane counter stay 0, main reads nothing,
\* no log.Fatalf is reached, and the closure cascade brings main to its normal
\* exit: by then chIn is closed, every collector has returned and chOut is closed.
C5_ImmediateDeadline ==
    /\ [](FirstCheckCancelled =>
            /\ published = << >>
            /\ inputCount = 0 /\ inputSum = 0
            /\ got = << >> /\ count = 0 /\ sum = 0
            /\ \A i \in Lanes : amounts[i] = 0
            /\ ~FatalEnd
            /\ ~panicked
            /\ mainPc = "exit" =>
                    /\ chInClosed /\ chOutClosed
                    /\ \A k \in Lanes : cPc[k] = "done")
    /\ FirstCheckCancelled ~> (mainPc = "exit")

\* C5 witness: a two-lane run whose generator returned at its first check, at
\* main's normal exit.
C5_Witness == FirstCheckCancelled /\ mainPc = "exit" /\ numOut = 2

\* C6 as stated: with one lane, at program end every published value went
\* through the single worker and the distribution vector has exactly one
\* non-zero entry, equal to the number of generated values.
C6_OneNonZeroEntry ==
    (numOut = 1 /\ MainEnded) =>
        /\ wRecv[1] = published
        /\ Cardinality({ i \in Lanes : amounts[i] # 0 }) = 1
        /\ amounts[1] = Len(published)

\* C6 amended: with one lane the program ends in its normal exit, every
\* published value went through the single worker, and the single entry of the
\* distribution vector equals the number of generated values (so it is
\* non-zero exactly when a value was generated).
C6_SingleLaneFunnel ==
    (numOut = 1 /\ MainEnded) =>
        /\ mainPc = "exit"
        /\ wRecv[1] = published
        /\ wSent[1] = published
        /\ amounts[1] = Len(published)
        /\ Cardinality({ i \in Lanes : amounts[i] # 0 })
                = IF published = << >> THEN 0 ELSE 1

\* C6 witness: a one-lane run that published two values has ended.
C6_Witness == numOut = 1 /\ MainEnded /\ Len(published) = 2

\* C7: every channel is closed exactly once, by the generator (chIn), its own
\* worker (outs[i]) or the waiting goroutine (chOut); nothing is sent on a
\* closed channel and no channel is closed twice (either would panic).
C7_ClosedExactlyOnce ==
    /\ ~panicked
    /\ chInClosedBy \in {"none", "Generator"}
    /\ chOutClosedBy \in {"none", "waiter"}
    /\ \A i \in Lanes : outsClosedBy[i] \in {0, i}
    /\ MainEnded =>
            chInClosed /\ chOutClosed /\ \A i \in Lanes : outsClosed(i)

\* C8: chOut is closed only when every collector has finished, every outs[i]
\* is closed, every value sent on an outs[i] has been put into chOut, and no
\* worker or collector still holds a value.
C8_ClosedAfterDrain ==
    chOutClosed =>
        /\ \A k \in Lanes : cPc[k] = "done"
        /\ \A i \in Lanes : outsClosed(i)
        /\ \A i \in Lanes : wPc[i] = "done"
        /\ \A i \in Lanes : Range(wSent[i]) \subseteq
                UNION { Range(cPut[k]) : k \in Lanes }

\* C9: collector i receives only from outs[i]; at program end amounts[i] is
\* the number of values worker i sent on outs[i], and no worker is left
\* blocked sending on a channel nobody reads.
C9_LaneOwnership ==
    /\ \A k \in Lanes : cFrom[k] \subseteq {k}
    /\ MainEnded => \A i \in Lanes : amounts[i] = Len(wSent[i])
    /\ MainEnded => \A i \in Lanes : wPc[i] # "send"

\* C10: the values received by distinct workers are pairwise disjoint, no
\* worker receives a value twice, and together the workers have received
\* exactly the values whose send on chIn has completed.
C10_ExactlyOneWorker ==
    /\ \A i, j \in Lanes :
            i # j => Range(wRecv[i]) \cap Range(wRecv[j]) = {}
    /\ \A i \in Lanes : \A v \in Range(wRecv[i]) : Occurrences(wRecv[i], v) = 1
    /\ UNION { Range(wRecv[i]) : i \in Lanes } = Range(published)

\* C10 witness: in a two-lane run each worker has received a value.
C10_Witness == numOut = 2 /\ Len(wRecv[1]) = 1 /\ Len(wRecv[2]) = 1

\* C11: the k-th value published on chIn is k; fn is called once per published
\* value, with that value, in order, after the send has completed and before
\* the next send begins, and never with a value that was not published.
C11_SequenceAndCallback ==
    /\ \A k \in 1..Len(published) : published[k] = k
    /\ Len(fnCalls) <= Len(published)
    /\ fnCalls = SubSeq(published, 1, Len(fnCalls))
    /\ Len(published) - Len(fnCalls) = IF genPc = "fn" THEN 1 ELSE 0

\* C11 witness: two values were published and fn was called for both.
C11_Witness == fnCalls = << 1, 2 >> /\ published = << 1, 2 >>

\* The generator's steps once the deadline has fired.
C12_Step ==
    /\ (ctxDone /\ genPc = "send") => genPc' \in {"send", "fn"}
    /\ (ctxDone /\ genPc # "send") =>
            (genPc' # "send" /\ published' = published)
    /\ (ctxDone /\ genPc = "select" /\ genPc' # "select") =>
            (genPc' = "done" /\ chInClosed')
    /\ (genPc # "done" /\ genPc' = "done") => (ctxDone /\ genPc = "select")
    /\ published' # published => genPc = "send"

\* C12: cancellation is looked at only in the select before a send.  A send
\* begun before the deadline is never abandoned and completes although the
\* deadline has fired; once the deadline has fired no new send is begun, so at
\* most that one value is still published, and the generator closes chIn at
\* its next select.
C12_NoAbandonedSend ==
    /\ [][C12_Step]_vars
    /\ (ctxDone /\ genPc = "send") ~> (genPc = "fn")
    /\ ctxDone ~> chInClosed

\* C12 witness: the deadline has fired while the generator is blocked in its
\* send, no worker being at its receive.
C12_Witness ==
    /\ ctxDone
    /\ genPc = "send"
    /\ \A i \in Lanes : wPc[i] # "recv"

\* C13: shutdown travels by channel closure only.  No worker returns or closes
\* outs[i] before chIn is closed; collector i does not return before outs[i]
\* is closed; and the deadline by itself stops neither: after it a worker
\* holding a value still hands it to a waiting reader and a collector holding
\* a value still puts it into chOut.
C13_ClosureCascade ==
    /\ \A i \in Lanes : (wPc[i] = "done" \/ outsClosed(i)) => chInClosed
    /\ \A k \in Lanes : cPc[k] = "done" => outsClosed(k)
    /\ \A i, k \in Lanes :
            ( /\ Running /\ ctxDone /\ wPc[i] = "send"
              /\ cPc[k] = "recv" /\ cCh[k] = i ) =>
                ENABLED WorkerSendCollRecv(i, k)
    /\ \A k \in Lanes :
            ( /\ Running /\ ctxDone /\ cPc[k] = "send"
              /\ ~chOutClosed /\ Len(chOut) < numOut ) =>
                ENABLED CollSend(k)

\* s is strictly increasing.
Increasing(s) == \A x, y \in 1..Len(s) : x < y => s[x] < s[y]

\* The subsequence of s of the values in set S.
InSet(S, v) == v \in S
Restrict(s, S) == SelectSeq(s, LAMBDA v : InSet(S, v))

\* The values in the order in which they were placed into chOut: those main
\* has read, then those still in the buffer.
Placed == got \o chOut

\* C14: within a lane order is kept end to end: worker i receives, and sends
\* on outs[i], its values in increasing order, they are placed into chOut in
\* increasing order, and main reads the values of one lane in strictly
\* increasing order.
C14_LaneOrder ==
    \A i \in Lanes :
        /\ Increasing(wRecv[i])
        /\ Increasing(wSent[i])
        /\ Increasing(Restrict(Placed, Range(wRecv[i])))
        /\ Increasing(Restrict(got, Range(wRecv[i])))

\* C15: the generation order does not survive the fan-out.  With two or more
\* lanes main can read a larger value before a smaller one (C15_Witness is
\* such a state); with a single lane it never does.
C15_ReorderNeedsTwoLanes == ~Increasing(got) => numOut >= 2

\* C15 witness: in a two-lane run the two values went through different
\* workers and main has read 2 before 1.
C15_Witness ==
    /\ loopVarPerIteration
    /\ numOut = 2
    /\ got = << 2, 1 >>
    /\ wRecv[1] # << >>
    /\ wRecv[2] # << >>

RECURSIVE SeqSum(_)
SeqSum(s) == IF s = << >> THEN 0 ELSE Head(s) + SeqSum(Tail(s))

\* Two conflicting accesses to the shared range variable c are both about to
\* happen: main's write at the next iteration and a collector's read.
RaceOnC ==
    /\ ~loopVarPerIteration
    /\ mainPc = "range"
    /\ mainI <= numOut
    /\ \E k \in Lanes : cPc[k] = "loop"

\* main is in task.go:125-141, where it reads inputCount, inputSum and amounts.
MainReadsTallies == mainPc \in {"checkSum", "checkCount", "checkDist"}

\* No race on the tallies and the lane counters: up to main's distribution
\* check (which itself subtracts from inputCount, task.go:137) the tallies
\* hold exactly what the calls of fn added, and they are final once chIn is
\* closed; amounts[i] holds exactly what collector i counted; main reads them
\* only when chOut is closed and the generator and every collector have
\* returned.
TalliesRaceFree ==
    /\ chInClosed => (genPc = "done" /\ fnCalls = published)
    /\ mainPc \notin {"exit", "fatalDist"} =>
            (inputCount = Len(fnCalls) /\ inputSum = SeqSum(fnCalls))
    /\ \A k \in Lanes :
            amounts[k] = Len(cPut[k]) - (IF cPc[k] = "inc" THEN 1 ELSE 0)
    /\ MainReadsTallies =>
            /\ chOutClosed
            /\ genPc = "done"
            /\ \A k \in Lanes : cPc[k] = "done"

\* C16: the tallies and the lane counters are the only memory the goroutines
\* share (no other variable is written by one goroutine while another reads
\* it), and there is no race on them.
C16_RaceFree == ~RaceOnC /\ TalliesRaceFree

\* C17: the checks end in log.Fatalf exactly when one of the three equalities
\* fails, and the fatal state names the (first) one that failed: the sums, the
\* counts, or the lane counters against the count; when all three hold main
\* exits normally.  The distribution check has by then subtracted the lane
\* counters from inputCount, whose former value equals count.
C17_FatalIffMismatch ==
    /\ mainPc = "fatalSum" => inputSum # sum
    /\ mainPc = "fatalCount" => (inputSum = sum /\ inputCount # count)
    /\ mainPc = "fatalDist" =>
            /\ inputSum = sum
            /\ SumTo(amounts, numOut) # count
            /\ inputCount = count - SumTo(amounts, numOut)
    /\ mainPc = "exit" =>
            /\ inputSum = sum
            /\ SumTo(amounts, numOut) = count
            /\ inputCount = 0
    /\ MainReadsTallies => ENABLED ReconNext

\* C17 witness: the sums and the counts agreed and main ended in the
\* distribution-mismatch log.Fatalf of a two-lane run.
C17_Witness == mainPc = "fatalDist" /\ numOut = 2 /\ inputSum = sum

\* The values the generator's callback has tallied differ from the values main
\* has read.
TalliedValueMissing ==
    Range(fnCalls) # Range(got) \/ Len(fnCalls) # Len(got)

InFlight == Len(published) - Len(got)

\* The workers that hold a value between <-in and out <- v, and the collectors
\* that hold one between <-c and chOut <- v.
WorkersHolding == {i \in Lanes : wPc[i] = "send"}
CollectorsHolding == {k \in Lanes : cPc[k] = "send"}

=============================================================================
